---- MODULE Spec2Model ----
(***************************************************************************)
(* Surface/view translation layer of the renderer:                        *)
(*   video_core/texture_cache/image_view.cpp                              *)
(*   video_core/renderer_vulkan/liverpool_to_vk.h                         *)
(* The three ImageViewInfo constructors (generic image, color target,     *)
(* depth target) and the ImageView constructor that realizes a view on a  *)
(* physical image (specification Spec), and the state ring buffer of      *)
(* Input::GameController, input/controller.cpp (specification PadSpec).   *)
(*                                                                         *)
(* u32 values are kept as their two's complement bit pattern: a value     *)
(* v < 2^31 is the integer v, a value v >= 2^31 is the integer v - 2^32.  *)
(* Sums and differences of small operands therefore need no reduction,    *)
(* and unsigned comparison is done by ULt/UGt below.                      *)
(***************************************************************************)
EXTENDS Integers, Sequences, FiniteSets, TLC

(* ---------------- bounds of the explored inputs ---------------- *)
MaxLevel == 1
MaxBaseArray == 1
MaxLastArray == 11
MaxSlice == 2
MaxNumSlices == 6

(* ---------------- unsigned 32-bit comparison ---------------- *)
ULt(a, b) == IF (a < 0) = (b < 0) THEN a < b ELSE b < 0
UGt(a, b) == ULt(b, a)
UMin(a, b) == IF ULt(b, a) THEN b ELSE a

(* ---------------- enumerations ---------------- *)
DataFormats == {"Format8", "Format16", "Format32", "Format8_8_8_8"}
NumberFormats == {"Unorm", "Float", "Srgb"}
ImageTypes == {"Color1D", "Color2D", "Color3D", "Cube", "Color1DArray",
               "Color2DArray", "Color2DMsaa", "Color2DMsaaArray"}
DstSelects == {"RGBA", "BGRA"}
SwapModes == {"Standard", "Alternate"}
ZFormats == {"ZInvalid", "Z16", "Z32Float"}
StencilFormats == {"StencilInvalid", "Stencil8"}
SrgbFormats == {"R8G8B8A8Srgb", "B8G8R8A8Srgb"}

(* ---------------- format resolution tables ---------------- *)
\* SurfaceFormat: exact-match lookup; "Undefined" stands for a lookup miss.
SurfaceFormat(dfmt, nfmt) ==
    CASE dfmt = "Format8" /\ nfmt = "Unorm" -> "R8Unorm"
      [] dfmt = "Format16" /\ nfmt = "Unorm" -> "R16Unorm"
      [] dfmt = "Format16" /\ nfmt = "Float" -> "R16Sfloat"
      [] dfmt = "Format32" /\ nfmt = "Float" -> "R32Sfloat"
      [] dfmt = "Format8_8_8_8" /\ nfmt = "Unorm" -> "R8G8B8A8Unorm"
      [] dfmt = "Format8_8_8_8" /\ nfmt = "Srgb" -> "R8G8B8A8Srgb"
      [] OTHER -> "Undefined"

AdjustColorBufferFormat(base_format, comp_swap) ==
    IF comp_swap = "Alternate"
    THEN CASE base_format = "R8G8B8A8Unorm" -> "B8G8R8A8Unorm"
           [] base_format = "R8G8B8A8Srgb" -> "B8G8R8A8Srgb"
           [] OTHER -> base_format
    ELSE base_format

DepthFormat(z_format, stencil_format) ==
    CASE z_format = "Z16" /\ stencil_format = "StencilInvalid" -> "D16Unorm"
      [] z_format = "Z32Float" /\ stencil_format = "StencilInvalid" -> "D32Sfloat"
      [] z_format = "Z16" /\ stencil_format = "Stencil8" -> "D16UnormS8Uint"
      [] z_format = "Z32Float" /\ stencil_format = "Stencil8" -> "D32SfloatS8Uint"
      [] OTHER -> "Undefined"

\* PromoteFormatToDepth: "Unreachable" stands for falling into UNREACHABLE().
PromoteFormatToDepthSwapped(fmt) ==
    CASE fmt = "R32Sfloat" -> "D16Unorm"
      [] fmt = "R16Unorm" -> "D32Sfloat"
      [] fmt = "R8G8B8A8Unorm" -> "R32Uint"
      [] fmt = "R8G8B8A8Srgb" -> "R32Uint"
      [] OTHER -> "Unreachable"

PromoteFormatToDepth(fmt) ==
    CASE fmt = "R32Sfloat" -> "D32Sfloat"
      [] fmt = "R16Unorm" -> "D16Unorm"
      [] fmt = "R8G8B8A8Unorm" -> "R32Uint"
      [] fmt = "R8G8B8A8Srgb" -> "R32Uint"
      [] OTHER -> "Unreachable"

\* ConvertImageViewType: "Unreachable" stands for the default: UNREACHABLE().
ConvertImageViewType(type) ==
    CASE type = "Color1D" -> "e1D"
      [] type = "Color1DArray" -> "e1DArray"
      [] type = "Color2D" -> "e2D"
      [] type = "Color2DMsaa" -> "e2D"
      [] type = "Cube" -> "eCube"
      [] type = "Color2DArray" -> "e2DArray"
      [] type = "Color3D" -> "e3D"
      [] OTHER -> "Unreachable"

ComponentMapping(dst_sel) == dst_sel

(* ---------------- ImageViewInfo ---------------- *)
\* Member initializers of ImageViewInfo: what a constructor leaves untouched.
DefaultInfo ==
    [format |-> "Undefined", type |-> "e2D", is_storage |-> FALSE,
     base_level |-> 0, levels |-> 1, base_layer |-> 0, layers |-> 1,
     mapping |-> "RGBA"]

IsStorage(desc, image) == desc.is_storage
GetBoundType(image) == image.type

\* Result of a constructor call: the outcome and the object built (DefaultInfo
\* when none was).
Built(i) == [outcome |-> "Ok", info |-> i]
Failed(o) == [outcome |-> o, info |-> DefaultInfo]

\* The number format used in the lookup: storage views never go through sRGB.
LookupNumberFmtKeepSrgb(is_storage, nfmt) == nfmt

LookupNumberFmt(is_storage, nfmt) ==
    IF is_storage /\ nfmt = "Srgb" THEN "Unorm" ELSE nfmt

\* range.extent.levels
MipLevelsNoMsaaCase(image) == image.last_level - image.base_level + 1

MipLevels(image) ==
    IF image.type = "Color2DMsaa" \/ image.type = "Color2DMsaaArray"
    THEN 1
    ELSE image.last_level - image.base_level + 1

\* "Adjust view type for arrays": the view type and layer count after the cube
\* and 3D fixups, from the converted type and the layer count of the descriptor.
AdjustForArraysNoClamp(type0, is_array, layers0) ==
    LET type == IF type0 = "eCube" /\ is_array THEN "eCubeArray" ELSE type0
    IN  [type |-> type,
         layers |-> IF type = "e3D" /\ UGt(layers0, 1) THEN 1 ELSE layers0]

AdjustForArrays(type0, is_array, layers0) ==
    LET type == IF type0 = "eCube" /\ is_array THEN "eCubeArray" ELSE type0
        layers1 == IF type0 = "eCube" /\ ~is_array THEN UMin(layers0, 6) ELSE layers0
    IN  [type |-> type,
         layers |-> IF type = "e3D" /\ UGt(layers1, 1) THEN 1 ELSE layers1]

\* ImageViewInfo(const AmdGpu::Image&, const Shader::ImageResource&)
FromGenericImage(image, desc) ==
    LET is_storage == IsStorage(desc, image)
        dfmt == image.dfmt
        nfmt == LookupNumberFmt(is_storage, image.nfmt)
        format0 == SurfaceFormat(dfmt, nfmt)
        format == IF desc.is_depth THEN PromoteFormatToDepth(format0) ELSE format0
        levels == MipLevels(image)
        layers0 == image.last_array - image.base_array + 1
        type0 == ConvertImageViewType(GetBoundType(image))
        adj == AdjustForArrays(type0, desc.is_array, layers0)
        mapping == IF ~is_storage
                   THEN ComponentMapping(image.dst_sel)
                   ELSE DefaultInfo.mapping
    IN  IF format0 = "Undefined" THEN Failed("UnsupportedFormat")
        ELSE IF format = "Unreachable" \/ type0 = "Unreachable" THEN Failed("Unreachable")
        ELSE Built([format |-> format, type |-> adj.type, is_storage |-> is_storage,
                    base_level |-> image.base_level, levels |-> levels,
                    base_layer |-> image.base_array, layers |-> adj.layers,
                    mapping |-> mapping])

\* range.extent.layers > 1 ? e2DArray : e2D, an unsigned comparison
TargetViewTypeSigned(layers) == IF layers > 1 THEN "e2DArray" ELSE "e2D"

TargetViewType(layers) == IF UGt(layers, 1) THEN "e2DArray" ELSE "e2D"

\* ImageViewInfo(const AmdGpu::Liverpool::ColorBuffer&)
FromColorTarget(col_buffer) ==
    LET base_format == SurfaceFormat(col_buffer.format, col_buffer.nfmt)
        base_layer == col_buffer.slice_start
        layers == col_buffer.num_slices - base_layer
        type == TargetViewType(layers)
        format == AdjustColorBufferFormat(base_format, col_buffer.comp_swap)
    IN  IF base_format = "Undefined" THEN Failed("UnsupportedFormat")
        ELSE Built([DefaultInfo EXCEPT !.format = format, !.type = type,
                                       !.base_layer = base_layer, !.layers = layers])

FromDepthTargetNoStorage(depth_buffer, view, ctl) ==
    LET format == DepthFormat(depth_buffer.z_format, depth_buffer.stencil_format)
        base_layer == view.slice_start
        layers == view.num_slices - base_layer
        type == TargetViewType(layers)
    IN  IF format = "Undefined" THEN Failed("UnsupportedFormat")
        ELSE Built([DefaultInfo EXCEPT !.format = format, !.type = type,
                                       !.base_layer = base_layer, !.layers = layers])

\* ImageViewInfo(const AmdGpu::Liverpool::DepthBuffer&, DepthView, DepthControl)
FromDepthTarget(depth_buffer, view, ctl) ==
    LET format == DepthFormat(depth_buffer.z_format, depth_buffer.stencil_format)
        base_layer == view.slice_start
        layers == view.num_slices - base_layer
        type == TargetViewType(layers)
    IN  IF format = "Undefined" THEN Failed("UnsupportedFormat")
        ELSE Built([DefaultInfo EXCEPT !.format = format, !.type = type,
                                       !.is_storage = ctl.depth_write_enable,
                                       !.base_layer = base_layer, !.layers = layers])

(* ---------------- inputs ---------------- *)
AmdGpuImages ==
    [dfmt : DataFormats, nfmt : NumberFormats, type : ImageTypes,
     base_level : 0..MaxLevel, last_level : 0..MaxLevel,
     base_array : 0..MaxBaseArray, last_array : 0..MaxLastArray,
     dst_sel : DstSelects]
ImageResources == [is_depth : BOOLEAN, is_array : BOOLEAN, is_storage : BOOLEAN]
ColorBuffers ==
    [format : DataFormats, nfmt : NumberFormats, comp_swap : SwapModes,
     slice_start : 0..MaxSlice, num_slices : 1..MaxNumSlices]
DepthBuffers == [z_format : ZFormats, stencil_format : StencilFormats]
DepthViews == [slice_start : 0..MaxSlice, num_slices : 1..MaxNumSlices]
DepthControls == [depth_write_enable : BOOLEAN]

(* ---------------- ImageView ---------------- *)
\* Image: the aspect mask follows from the format the image was allocated with.
DepthStencilFormats == {"D16Unorm", "D32Sfloat", "D16UnormS8Uint", "D32SfloatS8Uint"}
AspectMask(pixel_format) ==
    CASE pixel_format \in {"D16Unorm", "D32Sfloat"} -> {"eDepth"}
      [] pixel_format \in {"D16UnormS8Uint", "D32SfloatS8Uint"} -> {"eDepth", "eStencil"}
      [] OTHER -> {"eColor"}
UsageFlagSets == SUBSET {"eSampled", "eStorage"}
Images ==
    { [usage_flags |-> u, pixel_format |-> f, aspect_mask |-> AspectMask(f)] :
        u \in UsageFlagSets, f \in DepthStencilFormats \cup {"R8G8B8A8Unorm"} }

\* Descriptors handed to the ImageView constructor: what the builders return
\* for color targets, depth targets and single-level 2D generic images.
SampledImages ==
    { i \in AmdGpuImages : /\ i.type = "Color2D" /\ i.dst_sel = "RGBA"
                           /\ i.base_level = 0 /\ i.last_level = 0
                           /\ i.base_array = 0 /\ i.last_array = 0 }
ViewInfos ==
    { r.info : r \in { b \in   { FromColorTarget(c) : c \in ColorBuffers }
                           \cup { FromDepthTarget(d, v, c) :
                                    d \in DepthBuffers, v \in DepthViews, c \in DepthControls }
                           \cup { FromGenericImage(i, d) :
                                    i \in SampledImages, d \in ImageResources } :
                        b.outcome = "Ok" } }

\* Instance::GetSupportedFormat: the device offers the format or no format at all.
GetSupportedFormat(format, supported) == IF supported THEN format ELSE "Undefined"

ViewResults == {"eSuccess", "eErrorOutOfDeviceMemory"}
NoView == [valid |-> FALSE]

\* "When sampling D32/D16 texture from shader, the T# specifies R32/R16 format so
\* adjust it": the format and aspect after the depth fixup.
DepthFixupKeepAspect(image, format, aspect) ==
    IF /\ "eDepth" \in image.aspect_mask
       /\ format \in {"R32Sfloat", "D32Sfloat", "R16Unorm", "D16Unorm"}
    THEN [format |-> image.pixel_format, aspect |-> aspect]
    ELSE [format |-> format, aspect |-> aspect]

DepthFixup(image, format, aspect) ==
    IF /\ "eDepth" \in image.aspect_mask
       /\ format \in {"R32Sfloat", "D32Sfloat", "R16Unorm", "D16Unorm"}
    THEN [format |-> image.pixel_format, aspect |-> {"eDepth"}]
    ELSE [format |-> format, aspect |-> aspect]

StencilFixup(image, format, aspect) ==
    IF /\ "eStencil" \in image.aspect_mask
       /\ format \in {"R8Uint", "R8Unorm"}
    THEN [format |-> image.pixel_format, aspect |-> {"eStencil"}]
    ELSE [format |-> format, aspect |-> aspect]

\* createImageViewUnique followed by ASSERT_MSG(view_result == eSuccess)
CreateOutcomeReported(view_result) ==
    IF view_result = "eSuccess" THEN "Ok" ELSE "UnsupportedFormat"

CreateOutcome(view_result) ==
    IF view_result = "eSuccess" THEN "Ok" ELSE "AssertFailed"

\* usage_ci.usage: the view's effective usage, a copy of image.usage_flags
ViewUsageAlwaysStripped(is_storage, usage_flags) == usage_flags \ {"eStorage"}

ViewUsage(is_storage, usage_flags) ==
    IF ~is_storage THEN usage_flags \ {"eStorage"} ELSE usage_flags

\* ImageView::ImageView(instance, info, image, image_id); the result carries the
\* image as the constructor leaves it (it is taken by non-const reference).
ImageViewCtor(info_, image, supported, view_result) ==
    LET usage == ViewUsage(info_.is_storage, image.usage_flags)
        d == DepthFixup(image, info_.format, image.aspect_mask)
        s == StencilFixup(image, d.format, d.aspect)
        resolved == GetSupportedFormat(s.format, supported)
        created == CreateOutcome(view_result)
    IN  IF resolved = "Undefined"
        THEN [outcome |-> "UnsupportedFormat", view |-> NoView, image |-> image]
        ELSE IF created # "Ok"
        THEN [outcome |-> created, view |-> NoView, image |-> image]
        ELSE [outcome |-> "Ok", image |-> image,
              view |-> [valid |-> TRUE, info |-> info_, usage |-> usage,
                        requested_format |-> s.format, format |-> resolved,
                        viewType |-> info_.type, aspectMask |-> s.aspect,
                        baseMipLevel |-> info_.base_level, levelCount |-> info_.levels,
                        baseArrayLayer |-> info_.base_layer, layerCount |-> info_.layers,
                        components |-> info_.mapping]]

(* ---------------- state ---------------- *)
VARIABLES
    req,      \* the call being served: its kind and its arguments
    info,     \* the ImageViewInfo the call constructed (DefaultInfo when none)
    view,     \* the ImageView the call constructed (NoView when none)
    outcome,  \* how the call ended
    aborted,  \* the process was terminated by UNREACHABLE() or a failed ASSERT_MSG
    controller, \* Input::GameController: its fields, named as in the source
    now,        \* sceKernelGetProcessTime(), in microseconds
    added,      \* every state handed to AddState so far, in call order
    returned,   \* seq of every ring-buffer state ReadStates has handed out, in order
    last_read   \* the ReadStates call that has just returned: states_num and return value

viewVars == <<req, info, view, outcome, aborted>>
padVars == <<controller, now, added, returned, last_read>>
vars == <<viewVars, padVars>>

NoReq == [kind |-> "None"]
FatalOutcomes == {"Unreachable", "AssertFailed"}
Idle == req = NoReq /\ ~aborted

(* ---------------- Input::GameController ---------------- *)
MAX_STATES == 2
MaxAdds == 3
MaxTicks == 1

Buttons == {"Cross"}
Axes == {"LeftX", "TriggerLeft", "TriggerRight"}
\* The axis events explored: an axis and its new value.
AxisEvents == {<<"TriggerLeft", 255>>}

\* Input::State as State() leaves it; seq numbers the AddState call that stored
\* the state (0: none did), so that equal contents stay distinguishable.
DefaultState ==
    [time |-> 0, buttonsState |-> {}, axes |-> [a \in Axes |-> 128],
     angularVelocity |-> <<0, 0, 0>>, acceleration |-> <<0, 0, 0>>,
     touchpad |-> [t \in 0..1 |-> [state |-> FALSE, x |-> 0, y |-> 0]],
     seq |-> 0]

\* GameController::GameController and the member initializers
NewController(connected) ==
    [m_connected |-> connected,
     m_states |-> [i \in 0..(MAX_STATES - 1) |-> DefaultState],
     m_private |-> [i \in 0..(MAX_STATES - 1) |-> [obtained |-> FALSE]],
     m_first_state |-> 0,
     m_states_num |-> 0,
     m_last_state |-> DefaultState]

\* GameController::GetLastState
GetLastState(c) ==
    IF c.m_states_num = 0
    THEN c.m_last_state
    ELSE c.m_states[(c.m_first_state + c.m_states_num - 1) % MAX_STATES]

\* GameController::AddState
AddStateKeepFirst(c, state) ==
    LET num == IF c.m_states_num >= MAX_STATES THEN MAX_STATES - 1 ELSE c.m_states_num
        index == (c.m_first_state + num) % MAX_STATES
    IN  [c EXCEPT !.m_states_num = num + 1,
                  !.m_states[index] = state,
                  !.m_last_state = state,
                  !.m_private[index].obtained = FALSE]

AddState(c, state) ==
    LET full == c.m_states_num >= MAX_STATES
        num == IF full THEN MAX_STATES - 1 ELSE c.m_states_num
        first == IF full THEN (c.m_first_state + 1) % MAX_STATES ELSE c.m_first_state
        index == (first + num) % MAX_STATES
    IN  [c EXCEPT !.m_states_num = num + 1,
                  !.m_first_state = first,
                  !.m_states[index] = state,
                  !.m_last_state = state,
                  !.m_private[index].obtained = FALSE]

\* The for loop of ReadStates from position i on: the controller and the
\* states copied out so far.
RECURSIVE ReadLoop(_, _, _, _)
ReadLoop(c, i, states_num, states) ==
    IF i >= c.m_states_num \/ Len(states) >= states_num
    THEN [controller |-> c, states |-> states]
    ELSE LET index == (c.m_first_state + i) % MAX_STATES
         IN  IF ~c.m_private[index].obtained
             THEN ReadLoop([c EXCEPT !.m_private[index].obtained = TRUE], i + 1,
                           states_num, Append(states, c.m_states[index]))
             ELSE ReadLoop(c, i + 1, states_num, states)

\* GameController::ReadStates: the controller afterwards, the states written to
\* the caller's array and whether they come from the ring buffer.
ReadStates(c, states_num) ==
    IF ~c.m_connected
    THEN [controller |-> c, states |-> <<>>, ring |-> FALSE]
    ELSE IF c.m_states_num = 0
    THEN [controller |-> c, states |-> <<c.m_last_state>>, ring |-> FALSE]
    ELSE LET r == ReadLoop(c, 0, states_num, <<>>)
         IN  [controller |-> r.controller, states |-> r.states, ring |-> TRUE]

NoRead == [states_num |-> 0, ret_num |-> 0]

PadInit(connected) ==
    /\ controller = NewController(connected)
    /\ now = 0
    /\ added = <<>>
    /\ returned = <<>>
    /\ last_read = NoRead

\* A locked call that ends in AddState(state).
Add(state) ==
    /\ Len(added) < MaxAdds
    /\ LET st == [state EXCEPT !.seq = Len(added) + 1]
       IN  /\ controller' = AddState(controller, st)
           /\ added' = Append(added, st)
    /\ last_read' = NoRead
    /\ UNCHANGED <<now, returned, viewVars>>

CheckButton ==
    \E button \in Buttons, is_pressed \in BOOLEAN :
        LET state == GetLastState(controller)
        IN  Add([state EXCEPT !.time = now,
                              !.buttonsState = IF is_pressed THEN @ \cup {button}
                                                             ELSE @ \ {button}])

Axis ==
    \E e \in AxisEvents :
        LET axis == e[1]
            value == e[2]
            state == GetLastState(controller)
            s1 == [state EXCEPT !.time = now, !.axes[axis] = value]
            s2 == IF axis = "TriggerLeft"
                  THEN [s1 EXCEPT !.buttonsState = IF value > 0 THEN @ \cup {"L2"}
                                                                ELSE @ \ {"L2"}]
                  ELSE s1
            s3 == IF axis = "TriggerRight"
                  THEN [s2 EXCEPT !.buttonsState = IF value > 0 THEN @ \cup {"R2"}
                                                                ELSE @ \ {"R2"}]
                  ELSE s2
        IN  Add(s3)

Gyro ==
    \E gyro \in {<<1, 2, 3>>} :
        LET state == GetLastState(controller)
        IN  Add([state EXCEPT !.time = now, !.angularVelocity = gyro])

Acceleration ==
    \E acceleration \in {<<0, 9, 0>>} :
        LET state == GetLastState(controller)
        IN  Add([state EXCEPT !.time = now, !.acceleration = acceleration])

\* x and y are given in halves: static_cast<u16>(x * 1920), static_cast<u16>(y * 941)
SetTouchpadState ==
    \E touchIndex \in {0, 2}, touchDown \in {TRUE}, x2 \in {1}, y2 \in {1} :
        /\ touchIndex < 2
        /\ LET state == GetLastState(controller)
           IN  Add([state EXCEPT !.time = now,
                                 !.touchpad[touchIndex] =
                                     [state |-> touchDown,
                                      x |-> (x2 * 1920) \div 2,
                                      y |-> (y2 * 941) \div 2]])

\* GameController::Poll: repeats the last state once it has been obtained and is
\* at least 100 ms old.
PollAdds(c, time) ==
    /\ c.m_connected
    /\ IF c.m_states_num = 0
       THEN (time - c.m_last_state.time) \div 1000 >= 100
       ELSE LET index == (c.m_first_state - 1 + c.m_states_num) % MAX_STATES
            IN  /\ c.m_private[index].obtained
                /\ (time - c.m_states[index].time) \div 1000 >= 100

Poll ==
    /\ PollAdds(controller, now)
    /\ Add(GetLastState(controller))

PadReadStates ==
    \E states_num \in {0, 1, MAX_STATES} :
        LET r == ReadStates(controller, states_num)
        IN  /\ controller' = r.controller
            /\ last_read' = [states_num |-> states_num, ret_num |-> Len(r.states)]
            /\ returned' = IF r.ring
                           THEN returned \o [k \in 1..Len(r.states) |-> r.states[k].seq]
                           ELSE returned
            /\ UNCHANGED <<now, added, viewVars>>

\* Process time passes between calls.
Tick ==
    /\ now < MaxTicks * 100000
    /\ now' = now + 100000
    /\ UNCHANGED <<controller, added, returned, last_read, viewVars>>

PadNext ==
    \/ CheckButton
    \/ Axis
    \/ Gyro
    \/ Acceleration
    \/ SetTouchpadState
    \/ Poll
    \/ PadReadStates
    \/ Tick

ViewInit ==
    /\ req = NoReq
    /\ info = DefaultInfo
    /\ view = NoView
    /\ outcome = "None"
    /\ aborted = FALSE

Init == ViewInit /\ PadInit(TRUE)

\* The controller on its own, plugged in or not.
InitPad == ViewInit /\ \E connected \in BOOLEAN : PadInit(connected)

\* The end of a builder call: r is what the constructor returned.
Return(r) ==
    /\ info' = r.info
    /\ outcome' = r.outcome
    /\ aborted' = (r.outcome \in FatalOutcomes)
    /\ view' = NoView
    /\ UNCHANGED padVars

BuildGeneric ==
    /\ Idle
    /\ \E image \in AmdGpuImages, desc \in ImageResources :
          /\ req' = [kind |-> "Generic", image |-> image, desc |-> desc]
          /\ Return(FromGenericImage(image, desc))

BuildColor ==
    /\ Idle
    /\ \E col_buffer \in ColorBuffers :
          /\ req' = [kind |-> "Color", col_buffer |-> col_buffer]
          /\ Return(FromColorTarget(col_buffer))

BuildDepth ==
    /\ Idle
    /\ \E depth_buffer \in DepthBuffers, v \in DepthViews, ctl \in DepthControls :
          /\ req' = [kind |-> "Depth", depth_buffer |-> depth_buffer, view |-> v, ctl |-> ctl]
          /\ Return(FromDepthTarget(depth_buffer, v, ctl))

Realize ==
    /\ Idle
    /\ \E info_ \in ViewInfos, image \in Images, supported \in BOOLEAN,
          view_result \in ViewResults :
          LET r == ImageViewCtor(info_, image, supported, view_result)
          IN  /\ req' = [kind |-> "Realize", info |-> info_, image |-> image,
                         supported |-> supported, view_result |-> view_result,
                         image_after |-> r.image]
              /\ info' = info_
              /\ view' = r.view
              /\ outcome' = r.outcome
              /\ aborted' = (r.outcome \in FatalOutcomes)
              /\ UNCHANGED padVars

\* The caller takes the result (or skips the failed view) and the ImageView, if
\* one was made, is destroyed with its cache entry: ImageView::~ImageView.
Release ==
    /\ req # NoReq
    /\ ~aborted
    /\ req' = NoReq
    /\ info' = DefaultInfo
    /\ view' = NoView
    /\ outcome' = "None"
    /\ UNCHANGED aborted
    /\ UNCHANGED padVars

Next == BuildGeneric \/ BuildColor \/ BuildDepth \/ Realize \/ Release

Spec == Init /\ [][Next]_vars

PadSpec == InitPad /\ [][PadNext]_vars

TypeOK ==
    /\ aborted \in BOOLEAN
    /\ outcome \in {"None", "Ok", "UnsupportedFormat"} \cup FatalOutcomes

(* ======================= properties ======================= *)
GenericBuilt == req.kind = "Generic" /\ outcome = "Ok"
ColorBuilt == req.kind = "Color" /\ outcome = "Ok"
DepthBuilt == req.kind = "Depth" /\ outcome = "Ok"
Realized == req.kind = "Realize" /\ outcome = "Ok"

\* The hardware array and level ranges of the generic image being served.
ReqLayers == req.image.last_array - req.image.base_array + 1
ReqLevels == req.image.last_level - req.image.base_level + 1
\* The color format the lookup resolves for the generic image being served.
ReqResolved ==
    SurfaceFormat(req.image.dfmt,
                  IF req.desc.is_storage /\ req.image.nfmt = "Srgb"
                  THEN "Unorm" ELSE req.image.nfmt)

\* C1: every view descriptor a builder returns has mipLevelCount >= 1 and
\* arrayLayerCount >= 1, the counts read as unsigned 32-bit values.
C1_CountsAtLeastOne ==
    (GenericBuilt \/ ColorBuilt \/ DepthBuilt)
        => ~ULt(info.levels, 1) /\ ~ULt(info.layers, 1)

C2_FatalRequest ==
    \/ /\ req.kind = "Generic"
       /\ ReqResolved # "Undefined"
       /\ \/ /\ req.desc.is_depth
             /\ ReqResolved \notin {"R32Sfloat", "R16Unorm", "R8G8B8A8Unorm", "R8G8B8A8Srgb"}
          \/ req.image.type = "Color2DMsaaArray"
    \/ /\ req.kind = "Realize"
       /\ req.supported
       /\ req.view_result # "eSuccess"

C3_VolumeHasOneLayer ==
    GenericBuilt /\ info.type = "e3D" => info.layers = 1

C5_CubeLayers ==
    GenericBuilt /\ req.image.type = "Cube"
        => IF req.desc.is_array
           THEN info.type = "eCubeArray" /\ info.layers = ReqLayers
           ELSE /\ info.type = "eCube"
                /\ info.layers = (IF ULt(6, ReqLayers) THEN 6 ELSE ReqLayers)
                /\ ~UGt(info.layers, 6)

C5_Witness ==
    /\ GenericBuilt
    /\ req.image.type = "Cube"
    /\ ~req.desc.is_array
    /\ req.image.base_array = 0
    /\ req.image.last_array = 11
    /\ info.layers = 6

\* C6 (as stated): a storage binding of an sRGB image returns the format the
\* (dataFormat, Unorm) pair resolves to, never an sRGB format.
C6_StorageReturnsUnormFormat ==
    GenericBuilt /\ req.desc.is_storage /\ req.image.nfmt = "Srgb"
        => /\ info.format = SurfaceFormat(req.image.dfmt, "Unorm")
           /\ info.format \notin SrgbFormats

\* C6 (amended): a storage binding of an sRGB image returns the format the
\* (dataFormat, Unorm) pair resolves to, promoted to depth when the binding is
\* depth-sampled, and never an sRGB format; a non-storage binding looks up the
\* number format unchanged.
C6_StorageLooksUpUnorm ==
    GenericBuilt
        => LET looked == IF req.desc.is_storage /\ req.image.nfmt = "Srgb"
                         THEN SurfaceFormat(req.image.dfmt, "Unorm")
                         ELSE SurfaceFormat(req.image.dfmt, req.image.nfmt)
           IN  /\ info.format = IF req.desc.is_depth
                                THEN PromoteFormatToDepth(looked)
                                ELSE looked
               /\ req.desc.is_storage /\ req.image.nfmt = "Srgb"
                    => info.format \notin SrgbFormats

C6_Witness ==
    /\ GenericBuilt
    /\ req.desc.is_storage
    /\ ~req.desc.is_depth
    /\ req.image.nfmt = "Srgb"
    /\ info.format = "R8G8B8A8Unorm"

\* C7: a depth-sampled generic image returns the depth promotion of the
\* resolved color format (R32Sfloat to D32Sfloat, R16Unorm to D16Unorm, both
\* R8G8B8A8 formats to R32Uint); otherwise the resolved format unchanged.
C7_DepthPromotion ==
    GenericBuilt
        => IF req.desc.is_depth
           THEN \/ ReqResolved = "R32Sfloat" /\ info.format = "D32Sfloat"
                \/ ReqResolved = "R16Unorm" /\ info.format = "D16Unorm"
                \/ ReqResolved = "R8G8B8A8Unorm" /\ info.format = "R32Uint"
                \/ ReqResolved = "R8G8B8A8Srgb" /\ info.format = "R32Uint"
           ELSE info.format = ReqResolved

C7_Witness ==
    /\ GenericBuilt
    /\ req.desc.is_depth
    /\ ReqResolved = "R32Sfloat"
    /\ info.format = "D32Sfloat"

\* C8: a color target view starts at slice_start, has num_slices - slice_start
\* layers, is a 2DArray exactly when that count exceeds 1 and 2D otherwise,
\* has one mip level and is not a storage view.
C8_ColorTarget ==
    ColorBuilt
        => /\ info.base_layer = req.col_buffer.slice_start
           /\ info.layers = req.col_buffer.num_slices - req.col_buffer.slice_start
           /\ info.type = (IF UGt(info.layers, 1) THEN "e2DArray" ELSE "e2D")
           /\ info.levels = 1
           /\ info.is_storage = FALSE

C8_Witness ==
    /\ ColorBuilt
    /\ req.col_buffer.slice_start = 2
    /\ req.col_buffer.num_slices = 6
    /\ info.base_layer = 2
    /\ info.layers = 4
    /\ info.type = "e2DArray"

C10_DepthTarget ==
    DepthBuilt
        => /\ info.is_storage = req.ctl.depth_write_enable
           /\ info.base_layer = req.view.slice_start
           /\ info.layers = req.view.num_slices - req.view.slice_start
           /\ (info.type = "e2DArray") <=> UGt(info.layers, 1)

C10_Witness ==
    /\ DepthBuilt
    /\ ~req.ctl.depth_write_enable
    /\ ~info.is_storage
    /\ req.view.slice_start = 1
    /\ req.view.num_slices = 3
    /\ info.layers = 2
    /\ info.type = "e2DArray"

\* C11: the realized view's usage is the image's usage flags without the storage
\* bit when the descriptor is not a storage view and the image's usage flags
\* unchanged when it is; every other usage bit is kept either way and the
\* image's own usage flags are left as they were.
C11_ViewUsage ==
    Realized
        => /\ ~req.info.is_storage => view.usage = req.image.usage_flags \ {"eStorage"}
           /\ req.info.is_storage => view.usage = req.image.usage_flags
           /\ view.usage \ {"eStorage"} = req.image.usage_flags \ {"eStorage"}
           /\ req.image_after.usage_flags = req.image.usage_flags

C11_Witness ==
    /\ Realized
    /\ ~req.info.is_storage
    /\ req.image.usage_flags = {"eSampled", "eStorage"}
    /\ view.usage = {"eSampled"}
    /\ req.image_after.usage_flags = {"eSampled", "eStorage"}

\* C12: every state added to the ring buffer is returned by ReadStates at most
\* once and in the order of adding (the returned seq numbers strictly increase),
\* and a ReadStates call returns at most states_num states.
C12_ReadOnceInOrder ==
    /\ \A i, j \in 1..Len(returned) : i < j => returned[i] < returned[j]
    /\ last_read.ret_num <= last_read.states_num

\* C13: m_states_num and m_first_state stay within the ring, the ring holds
\* exactly the latest min(n, MAX_STATES) added states in the order of adding,
\* and GetLastState is the state added last.
C13_RingHoldsMostRecent ==
    LET c == controller
        n == Len(added)
        k == IF n < MAX_STATES THEN n ELSE MAX_STATES
    IN  /\ c.m_states_num \in 0..MAX_STATES
        /\ c.m_first_state \in 0..(MAX_STATES - 1)
        /\ c.m_states_num = k
        /\ \A i \in 0..(k - 1) :
              c.m_states[(c.m_first_state + i) % MAX_STATES] = added[n - k + 1 + i]
        /\ n > 0 => GetLastState(c) = added[n]

C13_Witness ==
    /\ Len(added) > MAX_STATES
    /\ controller.m_states_num = MAX_STATES
    /\ controller.m_first_state = 1
    /\ GetLastState(controller).seq = Len(added)
    /\ Len(returned) > 0

====
